---- MODULE Spec2Model ----
(***************************************************************************)
(* A model of the hybrid retrieval index of rag/retriever.py:              *)
(*   - HybridIndex (fit, query): one index instance, fitted any number of  *)
(*     times and queried (specification SpecIndex);                        *)
(*   - the index cache (get_or_create_index, clear_index_cache): the       *)
(*     st.cache_resource slot of one process, the blob at INDEX_FILE and   *)
(*     the document corpus (specification SpecCache).                      *)
(* and of what surrounds it:                                               *)
(*   - _normalize_retriever_result and the retrieval of answer_query       *)
(*     (answer.py, specification SpecNorm);                                *)
(*   - request handlers of two processes calling get_or_create_index and   *)
(*     clear_index_cache at once (specification SpecConc);                 *)
(*   - the loader (loader.py): one chunk_text call (SpecChunk), and        *)
(*     build_chunks and the index build over the files of data/docs        *)
(*     (SpecLoader);                                                       *)
(*   - a caller of fit that keeps its list (specification SpecOwner).      *)
(*                                                                         *)
(* Scores are fixed-point integers: a similarity s stands for s/10, the    *)
(* weights 0.7 and 0.3 are 7 and 3, a fused score f stands for f/100.      *)
(***************************************************************************)
EXTENDS Integers, Sequences, FiniteSets, TLC

VARIABLES
    index,        \* SpecIndex: the fields of one HybridIndex instance
    HAS_SEMANTIC, \* module flag: sentence_transformers could be imported
    tieRank,      \* the order np.argsort leaves equal scores in (fixed by the build)
    lastFit,      \* history: what the most recent fit call did
    last,         \* the outcome of the most recent query on the index as it stands
    corpus,       \* SpecCache: what data/docs holds (the texts build_chunks cuts)
    slot,         \* the st.cache_resource entry of get_or_create_index
    blob,         \* the file at INDEX_FILE
    nextId,       \* identities handed to the index objects of this process
    ret,          \* the index the most recent get_or_create_index call returned
    ev,           \* history: what the most recent cache operation did
    hist,         \* history of this process: clears and computations so far
    call,         \* SpecNorm: who normalizes, and the retriever result it is given
    norm,         \* what _normalize_retriever_result returned for it
    passages,     \* what answer_query holds as retrieved after its own pass
    hs,           \* SpecConc: where each request handler stands
    caches,       \* the st.cache_resource caches of each process
    conc,         \* the file behind INDEX_FILE, and the history of the run
    docs,         \* SpecLoader: the directory data/docs and the files under it
    built,        \* what the two most recent build_chunks calls returned
    loop,         \* SpecChunk: the local variables of a chunk_text call
    caller        \* SpecOwner: the list a caller of fit holds

vars == <<index, HAS_SEMANTIC, tieRank, lastFit, last,
          corpus, slot, blob, nextId, ret, ev, hist,
          call, norm, passages, hs, caches, conc, docs, built, loop, caller>>

indexVars == <<index, lastFit, last>>
cacheVars == <<corpus, slot, blob, nextId, ret, ev, hist>>
normVars == <<call, norm, passages>>
concVars == <<hs, caches, conc>>
loaderVars == <<docs, built>>

----------------------------------------------------------------------------
(* Bounds of the model *)

MaxChunks == 3
MaxTopK == 2
MaxCorpusChunks == 2
MaxInstances == 2

(* The texts a chunk can hold and the queries asked. *)
Texts == {"penalty for theft", "contracts require offer"}
Queries == {"theft penalty", "offer", "weather"}

(* Cosine similarities, in tenths, that the two third-party scorers give a *)
(* query against a chunk text.  The dense one can be negative, the TF-IDF  *)
(* one cannot.                                                             *)
SemSim(q, t) ==
    CASE q = "theft penalty" /\ t = "penalty for theft" -> 8
      [] q = "theft penalty" /\ t = "contracts require offer" -> -1
      [] q = "offer" /\ t = "penalty for theft" -> 1
      [] q = "offer" /\ t = "contracts require offer" -> 5
      [] q = "weather" /\ t = "penalty for theft" -> 0
      [] OTHER -> -2

LexSim(q, t) ==
    CASE q = "theft penalty" /\ t = "penalty for theft" -> 6
      [] q = "theft penalty" /\ t = "contracts require offer" -> 2
      [] q = "offer" /\ t = "contracts require offer" -> 4
      [] OTHER -> 0

----------------------------------------------------------------------------
(* Values *)

NoneM == [isNone |-> TRUE, rows |-> <<>>]
SomeM(rows) == [isNone |-> FALSE, rows |-> rows]

SeqsUpTo(S, n) == UNION {[1..m -> S] : m \in 0..n}

(* build_chunks numbers the chunks chunk-0, chunk-1, ... in output order. *)
MkChunks(texts) == [i \in 1..Len(texts) |-> [chunk_id |-> i - 1, text |-> texts[i]]]

ChunkTexts(chunks) == [i \in 1..Len(chunks) |-> chunks[i].text]

(* HybridIndex.__init__ *)
EmptyIndex ==
    [chunks |-> <<>>,
     vectorizer |-> "None",
     tfidf_matrix |-> NoneM,
     embedder |-> "None",
     doc_embeddings |-> NoneM]

(* Orders np.argsort can leave equal scores in.  Its default sort is not   *)
(* stable: short arrays sorted by insertion keep equal scores in index     *)
(* order, other kernels do not.  The order is fixed by the build.          *)
TieOrders == {"index order", "reverse order"}
TieRank(order, i) == IF order = "index order" THEN i ELSE 0 - i

----------------------------------------------------------------------------
(* HybridIndex.fit *)

(* The TF-IDF part.  The vectorizer attribute is replaced by a new,        *)
(* unfitted TfidfVectorizer before fit_transform runs; tfidf_matrix is     *)
(* assigned only when fit_transform returns.                               *)
FitLexical(idx, texts, lexOk) ==
    [idx EXCEPT !.vectorizer = IF lexOk THEN "fitted" ELSE "unfitted",
                !.tfidf_matrix = IF lexOk THEN SomeM(texts) ELSE @]

(* The embedding part, skipped when HAS_SEMANTIC is false.  sem is what    *)
(* happens in its try block: the model cannot be loaded ("load_failed",    *)
(* only when no model is loaded yet), encode raises ("encode_failed"), or  *)
(* both succeed ("ok").  Either failure sets doc_embeddings to None.       *)
SemOutcomes(idx) ==
    IF idx.embedder = "None" THEN {"ok", "load_failed", "encode_failed"}
    ELSE {"ok", "encode_failed"}

FitSemantic(idx, texts, hasSem, sem) ==
    IF ~hasSem THEN idx
    ELSE IF sem = "load_failed"
         THEN [idx EXCEPT !.doc_embeddings = NoneM]
         ELSE [idx EXCEPT !.embedder = "model",
                          !.doc_embeddings = IF sem = "ok" THEN SomeM(texts) ELSE NoneM]

FitIndex(idx, chunks, hasSem, lexOk, sem) ==
    LET stored == [idx EXCEPT !.chunks = chunks]
        texts == ChunkTexts(chunks)
    IN  FitSemantic(FitLexical(stored, texts, lexOk), texts, hasSem, sem)

(* fit_transform raises on an empty list of texts (empty vocabulary); on   *)
(* any other list it may raise too (only stop words, every term pruned).   *)
LexCanSucceed(chunks) == Len(chunks) > 0

----------------------------------------------------------------------------
(* HybridIndex.query *)

SEM_WEIGHT == 7
LEX_WEIGHT == 3

SemPresent(idx) == ~idx.doc_embeddings.isNone /\ idx.embedder # "None"
LexPresent(idx) == idx.vectorizer # "None" /\ ~idx.tfidf_matrix.isNone

(* scores += ... adds a vector with one score per matrix row to the vector *)
(* of len(self.chunks) zeros: numpy takes a vector of that length, spreads *)
(* a vector of one score over every chunk, and raises ValueError on any    *)
(* other length.                                                           *)
Addable(rows, chunks) == Len(rows) = Len(chunks) \/ Len(rows) = 1
Row(rows, i) == rows[IF Len(rows) = 1 THEN 1 ELSE i]

ShapeMismatch(idx) ==
    \/ SemPresent(idx) /\ ~Addable(idx.doc_embeddings.rows, idx.chunks)
    \/ LexPresent(idx) /\ ~Addable(idx.tfidf_matrix.rows, idx.chunks)

(* vectorizer.transform raises NotFittedError on a vectorizer whose        *)
(* fit_transform did not complete.                                         *)
QueryRaises(idx) ==
    \/ LexPresent(idx) /\ idx.vectorizer = "unfitted"
    \/ ShapeMismatch(idx)

SemContributionUnweighted(idx, q, i) ==
    IF SemPresent(idx) THEN SemSim(q, Row(idx.doc_embeddings.rows, i)) ELSE 0

SemContribution(idx, q, i) ==
    IF SemPresent(idx) THEN SEM_WEIGHT * SemSim(q, Row(idx.doc_embeddings.rows, i)) ELSE 0

LexContribution(idx, q, i) ==
    IF LexPresent(idx) THEN LEX_WEIGHT * LexSim(q, Row(idx.tfidf_matrix.rows, i)) ELSE 0

Scores(idx, q) ==
    [i \in 1..Len(idx.chunks) |-> SemContribution(idx, q, i) + LexContribution(idx, q, i)]

(* np.argsort(scores): the indices in ascending score; the default sort is *)
(* not stable, equal scores come in the order rank names.                  *)
ArgSort(scores, rank) ==
    LET n == Len(scores)
        Before(a, b) == \/ scores[a] < scores[b]
                        \/ scores[a] = scores[b] /\ TieRank(rank, a) < TieRank(rank, b)
        Smaller(a) == {b \in 1..n : Before(b, a)}
    IN  [pos \in 1..n |-> CHOOSE a \in 1..n : Cardinality(Smaller(a)) = pos - 1]

(* order[-top_k:] : the last top_k entries, and the whole of order when    *)
(* top_k is 0 (the slice [-0:] is [0:]) or exceeds its length.             *)
LastKFromFront(order, top_k) ==
    LET n == Len(order)
    IN  IF top_k = 0 \/ top_k >= n THEN order ELSE SubSeq(order, 1, top_k)

LastK(order, top_k) ==
    LET n == Len(order)
    IN  IF top_k = 0 \/ top_k >= n THEN order ELSE SubSeq(order, n - top_k + 1, n)

Reverse(s) == [i \in 1..Len(s) |-> s[Len(s) + 1 - i]]

TopIndices(scores, top_k, rank) == Reverse(LastK(ArgSort(scores, rank), top_k))

KeepNonNegative(score) == score >= 0

(* if scores[i] > 0.0 *)
Keep(score) == score > 0

RECURSIVE Collect(_, _, _)
Collect(idx, scores, indices) ==
    IF indices = <<>> THEN <<>>
    ELSE LET i == Head(indices)
             rest == Collect(idx, scores, Tail(indices))
         IN  IF Keep(scores[i])
             THEN <<[score |-> scores[i], chunk |-> idx.chunks[i]]>> \o rest
             ELSE rest

NoOutcome == [outcome |-> "none", q |-> "", top_k |-> 0, results |-> <<>>]

QueryIndexNoEmptyCheck(idx, q, top_k, rank) ==
    IF QueryRaises(idx)
    THEN [outcome |-> "raised", q |-> q, top_k |-> top_k, results |-> <<>>]
    ELSE [outcome |-> "returned", q |-> q, top_k |-> top_k,
          results |-> Collect(idx, Scores(idx, q),
                              TopIndices(Scores(idx, q), top_k, rank))]

QueryIndex(idx, q, top_k, rank) ==
    IF idx.chunks = <<>>
    THEN [outcome |-> "returned", q |-> q, top_k |-> top_k, results |-> <<>>]
    ELSE IF QueryRaises(idx)
    THEN [outcome |-> "raised", q |-> q, top_k |-> top_k, results |-> <<>>]
    ELSE [outcome |-> "returned", q |-> q, top_k |-> top_k,
          results |-> Collect(idx, Scores(idx, q),
                              TopIndices(Scores(idx, q), top_k, rank))]

----------------------------------------------------------------------------
(* _normalize_retriever_result (answer.py) *)

(* Python values as the function meets them: None, a string, a number (in  *)
(* hundredths) or a mapping, of which only the value under "source" (s)    *)
(* and the number of its other keys (n) matter.                            *)
None_ == [t |-> "none", s |-> "", n |-> 0]
Str(x) == [t |-> "str", s |-> x, n |-> 0]
Num(x) == [t |-> "num", s |-> "", n |-> x]
Dict(src, others) == [t |-> "dict", s |-> src, n |-> others]

(* Truth value testing: None, "", 0 and {} are false. *)
Truthy(v) ==
    CASE v.t = "none" -> FALSE
      [] v.t = "str" -> v.s # ""
      [] v.t = "num" -> v.n # 0
      [] OTHER -> v.s # "" \/ v.n # 0

(* a or b *)
Or(a, b) == IF Truthy(a) THEN a ELSE b

(* str(number) *)
NumStr(n) ==
    CASE n = 0 -> "0.0"
      [] n = 7 -> "0.07"
      [] n = 90 -> "0.9"
      [] OTHER -> "<float>"

(* str(v) *)
StrOf(v) ==
    CASE v.t = "none" -> Str("None")
      [] v.t = "str" -> v
      [] v.t = "num" -> Str(NumStr(v.n))
      [] OTHER -> Str("{...}")

Unknown == Str("unknown")

(* An entry of a retriever result.  kind says what isinstance finds: a     *)
(* string, a tuple of two, a mapping, or any other object.  str is what    *)
(* str(item) gives.  For a tuple, first is item[0] and item[1] is either a *)
(* mapping (its keys are the fields below) or the value second.  For a     *)
(* mapping the fields are its keys, for an object its attributes; a key or *)
(* attribute that is missing reads as None, except metadata, whose         *)
(* presence hasattr tells.                                                 *)
BlankItem ==
    [kind |-> "str", str |-> "", first |-> None_, secondIsDict |-> FALSE,
     second |-> None_, source |-> None_, filename |-> None_, meta |-> None_,
     text |-> None_, content |-> None_, page_content |-> None_,
     chunk |-> None_, score |-> None_, similarity |-> None_,
     hasMetadata |-> FALSE, metadata |-> None_]

StrItem(x) == [BlankItem EXCEPT !.str = x]

Entry(source, text, score) == [source |-> source, text |-> text, score |-> score]

(* m.get("source") for the value m of meta or metadata, after "or {}":     *)
(* a true value that is no mapping has no get and raises AttributeError.   *)
MetaSourceRaises(m) == Truthy(m) /\ m.t # "dict"
MetaSource(m) == IF m.t = "dict" /\ m.s # "" THEN Str(m.s) ELSE None_

(* A tuple of two or more: (score, item). *)
NormalizePairSwapped(item) ==
    IF item.first.t = "dict"
    THEN Entry(Unknown, Str(item.str), item.second)
    ELSE Entry(Unknown, StrOf(item.first), item.second)

NormalizePair(item) ==
    IF item.secondIsDict
    THEN Entry(Or(Or(item.source, item.filename), Unknown),
               Or(Or(item.text, item.content), Str("{...}")),
               item.first)
    ELSE Entry(Unknown, StrOf(item.second), item.first)

(* A mapping. *)
NormalizeDictRaises(item) ==
    ~Truthy(item.source) /\ ~Truthy(item.filename) /\ MetaSourceRaises(item.meta)

NormalizeDict(item) ==
    Entry(Or(Or(Or(item.source, item.filename), MetaSource(item.meta)), Unknown),
          Or(Or(Or(Or(item.text, item.content), item.page_content), item.chunk),
             Str(item.str)),
          Or(Or(item.score, item.similarity), None_))

(* Any other object: the conditional expression binds weaker than or, so   *)
(* the source attribute is read only when the object has metadata.         *)
NormalizeObjRaises(item) ==
    item.hasMetadata /\ ~Truthy(item.source) /\ MetaSourceRaises(item.metadata)

NormalizeObj(item) ==
    LET src == IF item.hasMetadata
               THEN Or(item.source, MetaSource(item.metadata))
               ELSE None_
    IN  Entry(Or(src, Unknown),
              Or(Or(item.text, item.page_content), Str(item.str)),
              item.score)

NormalizeItemRaises(item) ==
    CASE item.kind = "dict" -> NormalizeDictRaises(item)
      [] item.kind = "obj" -> NormalizeObjRaises(item)
      [] OTHER -> FALSE

NormalizeItem(item) ==
    CASE item.kind = "pair" -> NormalizePair(item)
      [] item.kind = "str" -> Entry(Unknown, Str(item.str), None_)
      [] item.kind = "dict" -> NormalizeDict(item)
      [] OTHER -> NormalizeObj(item)

(* A retriever result: None, a list of entries, or anything else; str is   *)
(* what str(res) gives.                                                    *)
NoneResult == [t |-> "none", items |-> <<>>, str |-> "None"]
ListResult(items) == [t |-> "list", items |-> items, str |-> "[...]"]
OtherResult(x) == [t |-> "other", items |-> <<>>, str |-> x]

Fallback(res) == <<Entry(Unknown, Str(res.str), None_)>>

(* The loop runs inside one try block: an exception on any entry ends it   *)
(* and the except clause returns the one fallback entry.                   *)
NormalizeRetrieverResult(res) ==
    CASE res.t = "none" -> <<>>
      [] res.t = "list" ->
            IF \E i \in 1..Len(res.items) : NormalizeItemRaises(res.items[i])
            THEN Fallback(res)
            ELSE [i \in 1..Len(res.items) |-> NormalizeItem(res.items[i])]
      [] OTHER -> Fallback(res)

(* The mapping {"source", "text", "score"} as an entry of a result list. *)
EntryAsItem(e) ==
    [BlankItem EXCEPT !.kind = "dict", !.str = "{...}", !.source = e.source,
                      !.text = e.text, !.score = e.score]

(* The path a chunk's document was read from. *)
DocSource(chunk) ==
    IF chunk.text = "penalty for theft" THEN "data/docs/ipc.txt"
    ELSE "data/docs/contract_act.txt"

(* One (score, chunk) tuple of HybridIndex.query, the chunk being the      *)
(* mapping build_chunks made.                                              *)
QueryResultAsItem(r) ==
    [BlankItem EXCEPT !.kind = "pair", !.str = "(...)", !.first = Num(r.score),
                      !.secondIsDict = TRUE, !.source = Str(DocSource(r.chunk)),
                      !.text = Str(r.chunk.text), !.chunk = Num(r.chunk.chunk_id)]

QueryResultsAsList(results) ==
    ListResult([i \in 1..Len(results) |-> QueryResultAsItem(results[i])])

NoCall == [caller |-> "none", res |-> NoneResult, done |-> FALSE]

NormIdle ==
    /\ call = NoCall
    /\ norm = <<>>
    /\ passages = <<>>

----------------------------------------------------------------------------
(* Request handlers and processes (SpecConc) *)

(* The calls of get_or_create_index and clear_index_cache begun in a run. *)
MaxOps == 3

(* Streamlit runs each session's script in a thread of the server process: *)
(* handlers 1 and 2 are threads of process 1, handler 3 is a thread of a   *)
(* second server process started on the same directory.                    *)
Handlers == {1, 2, 3}
Procs == {1, 2}
ProcOf(h) == IF h = 3 THEN 2 ELSE 1

(* A handler is idle or inside get_or_create_index or clear_index_cache.   *)
(* gen is the cache object it took hold of, idx and id the index object it *)
(* works on, ino the file it has open for writing, disturbed whether       *)
(* another writer has had that file open at the same time.  The rest is    *)
(* history: calls of get_or_create_index made, whether the last one waited *)
(* for a value, whether it began after an invalidation by its process that *)
(* followed the last change of the corpus, no other handler being at work  *)
(* (expect), and                                                           *)
(* whether the clear under way began after the last change of the corpus.  *)
IdleHandler ==
    [pc |-> "idle", gen |-> 0, idx |-> EmptyIndex, id |-> 0, ino |-> 0,
     disturbed |-> FALSE, ret |-> [isNone |-> TRUE, id |-> 0, idx |-> EmptyIndex],
     calls |-> 0, waited |-> FALSE, expect |-> FALSE, afterChange |-> FALSE]

(* st.cache_resource of one process: the function caches in use (gen) and  *)
(* the ones clear() has dropped, which their users still hold.             *)
EmptyCaches ==
    [gen |-> 0,
     entries |-> [g \in 0..MaxOps |->
                     [isNone |-> TRUE, id |-> 0, idx |-> EmptyIndex]]]

(* The file system's side of INDEX_FILE and the history of the run. *)
ConcStart ==
    [ino |-> 0, calls |-> 0, clears |-> 0, fresh |-> [p \in Procs |-> FALSE],
     readPartial |-> FALSE,
     builds |-> [p \in Procs |-> 0], fits |-> [p \in Procs |-> 0]]

ConcIdle ==
    /\ hs = [h \in Handlers |-> IdleHandler]
    /\ caches = [p \in Procs |-> EmptyCaches]
    /\ conc = ConcStart

(* No request handler and no process is looked at. *)
NoHandlers ==
    /\ hs = <<>>
    /\ caches = <<>>
    /\ conc = ConcStart

----------------------------------------------------------------------------
(* The loader (loader.py) *)

Min(a, b) == IF a <= b THEN a ELSE b
Max(a, b) == IF a >= b THEN a ELSE b

(* A text is held as the sequence of its words, which is what text.split() *)
(* makes of it; a text of white space alone has no words.  A chunk's text  *)
(* is held the same way: " ".join(chunk) of words, which hold no white     *)
(* space, splits into those words again, and is empty only for no words.   *)

(* The defaults of chunk_text. *)
CHUNK_TOKENS == 180
OVERLAP == 30

(* A slice bound k of a sequence of length n: a negative k counts from the *)
(* end, and both ends are clipped.                                         *)
SliceBound(k, n) == IF k < 0 THEN Max(0, n + k) ELSE Min(k, n)

(* words[a:b] *)
Slice(words, a, b) ==
    SubSeq(words, SliceBound(a, Len(words)) + 1, SliceBound(b, Len(words)))

(* max(1, chunk_tokens - overlap) *)
StrideNoFloor(chunk_tokens, overlap) == chunk_tokens - overlap

Stride(chunk_tokens, overlap) == Max(1, chunk_tokens - overlap)

(* The while loop of chunk_text from position i on. *)
RECURSIVE ChunkTextFrom(_, _, _, _)
ChunkTextFrom(words, i, chunk_tokens, overlap) ==
    IF i < Len(words)
    THEN <<Slice(words, i, i + chunk_tokens)>>
            \o ChunkTextFrom(words, i + Stride(chunk_tokens, overlap),
                             chunk_tokens, overlap)
    ELSE <<>>

ChunkText(words, chunk_tokens, overlap) ==
    IF words = <<>> THEN <<>> ELSE ChunkTextFrom(words, 0, chunk_tokens, overlap)

(* data/docs: there as a directory ("present"), missing, or not to be made *)
(* ("blocked": the path or its parent is a file, or may not be written).   *)
(* files are the files under it, in the order os.walk meets them.          *)
NoDocs == [dir |-> "missing", files |-> <<>>]

(* A file: its path, its extension, whether it can be read (open succeeds, *)
(* and PdfReader for a PDF), and the words of its text.                    *)
File(name, ext, readable, nwords) ==
    [path |-> "data/docs/" \o name \o ext, ext |-> ext, readable |-> readable,
     words |-> [k \in 1..nwords |-> k]]

(* load_corpus reads .txt and .pdf files and passes over the others. *)
KnownExt(f) == f.ext \in {".txt", ".pdf"}

(* The loop of load_corpus over the files from one on, idx documents       *)
(* having been taken: a file that raises is skipped inside the loop, a     *)
(* text of white space alone is not taken.                                 *)
RECURSIVE LoadFilesUntilUnreadable(_, _)
LoadFilesUntilUnreadable(files, idx) ==
    IF files = <<>> THEN <<>>
    ELSE LET f == Head(files)
         IN  IF ~KnownExt(f) THEN LoadFilesUntilUnreadable(Tail(files), idx)
             ELSE IF ~f.readable THEN <<>>
             ELSE IF f.words = <<>> THEN LoadFilesUntilUnreadable(Tail(files), idx)
             ELSE <<[id |-> idx, source |-> f.path, text |-> f.words]>>
                    \o LoadFilesUntilUnreadable(Tail(files), idx + 1)

RECURSIVE LoadFiles(_, _)
LoadFiles(files, idx) ==
    IF files = <<>> THEN <<>>
    ELSE LET f == Head(files)
         IN  IF ~KnownExt(f) \/ ~f.readable \/ f.words = <<>>
             THEN LoadFiles(Tail(files), idx)
             ELSE <<[id |-> idx, source |-> f.path, text |-> f.words]>>
                    \o LoadFiles(Tail(files), idx + 1)

(* os.makedirs(DOCS_DIR, exist_ok=True): makes the directory when it is    *)
(* missing, and raises when it cannot.                                     *)
LoadCorpusRaises(d) == d.dir = "blocked"
AfterMakedirs(d) == IF d.dir = "missing" THEN [d EXCEPT !.dir = "present"] ELSE d

LoadCorpus(d) == LoadFiles(d.files, 0)

(* The loop of build_chunks over the documents from one on, c chunks       *)
(* having been made.                                                       *)
RECURSIVE ChunksOfDocsNumberedPerDoc(_, _)
ChunksOfDocsNumberedPerDoc(items, c) ==
    IF items = <<>> THEN <<>>
    ELSE LET doc == Head(items)
             parts == ChunkText(doc.text, CHUNK_TOKENS, OVERLAP)
         IN  [k \in 1..Len(parts) |->
                [chunk_id |-> k - 1, doc_id |-> doc.id, source |-> doc.source,
                 text |-> parts[k]]]
                \o ChunksOfDocsNumberedPerDoc(Tail(items), c)

RECURSIVE ChunksOfDocs(_, _)
ChunksOfDocs(items, c) ==
    IF items = <<>> THEN <<>>
    ELSE LET doc == Head(items)
             parts == ChunkText(doc.text, CHUNK_TOKENS, OVERLAP)
         IN  [k \in 1..Len(parts) |->
                [chunk_id |-> c + k - 1, doc_id |-> doc.id, source |-> doc.source,
                 text |-> parts[k]]]
                \o ChunksOfDocs(Tail(items), c + Len(parts))

(* build_chunks() on the directory d. *)
BuildChunksOfDocs(d) == ChunksOfDocs(LoadCorpus(d), 0)

(* What a build_chunks call gave, and the directory it met. *)
NoBuild == [outcome |-> "none", chunks |-> <<>>, seen |-> NoDocs]

BuildResult(d) ==
    IF LoadCorpusRaises(d) THEN [outcome |-> "raised", chunks |-> <<>>, seen |-> d]
    ELSE [outcome |-> "returned", chunks |-> BuildChunksOfDocs(d), seen |-> d]

(* No chunk_text call is looked at. *)
NoLoop == [pc |-> "none", words |-> <<>>, chunk_tokens |-> 0, overlap |-> 0,
           i |-> 0, chunks |-> <<>>]

(* The list object a caller of fit holds, what the caller did last, and    *)
(* whether the chunks attribute of the index is that same object.          *)
NoCaller == [op |-> "none", bound |-> FALSE, list |-> <<>>]

LoaderIdle ==
    /\ docs = NoDocs
    /\ built = <<NoBuild, NoBuild>>

OthersAbsent ==
    /\ LoaderIdle
    /\ loop = NoLoop
    /\ caller = NoCaller

----------------------------------------------------------------------------
(* SpecIndex: one HybridIndex instance *)

NoFit == [called |-> FALSE, lexOk |-> FALSE, semOk |-> FALSE]

NoIndex == [isNone |-> TRUE, id |-> 0, idx |-> EmptyIndex]
NoEvent == [op |-> "none", path |-> "none", wrote |-> "none",
            prev |-> "none", changed |-> FALSE, found |-> "none"]
NoHistory == [cleared |-> FALSE, loaded |-> 0, builds |-> 0]

CacheIdle ==
    /\ corpus = [available |-> TRUE, texts |-> <<>>]
    /\ slot = NoIndex
    /\ blob = [state |-> "absent", data |-> <<>>, src |-> EmptyIndex]
    /\ nextId = 0
    /\ ret = NoIndex
    /\ ev = NoEvent
    /\ hist = NoHistory

InitIndex ==
    /\ index = EmptyIndex
    /\ HAS_SEMANTIC \in BOOLEAN
    /\ tieRank \in TieOrders
    /\ lastFit = NoFit
    /\ last = NoOutcome
    /\ CacheIdle
    /\ NormIdle
    /\ NoHandlers
    /\ OthersAbsent

Fit ==
    \E texts \in SeqsUpTo(Texts, MaxChunks), lexOk \in BOOLEAN,
       sem \in SemOutcomes(index) :
        /\ lexOk => LexCanSucceed(MkChunks(texts))
        /\ ~HAS_SEMANTIC => sem = "ok"
        /\ index' = FitIndex(index, MkChunks(texts), HAS_SEMANTIC, lexOk, sem)
        /\ lastFit' = [called |-> TRUE, lexOk |-> lexOk,
                       semOk |-> HAS_SEMANTIC /\ sem = "ok"]
        /\ last' = NoOutcome
        /\ UNCHANGED <<HAS_SEMANTIC, tieRank, cacheVars, normVars, concVars, loaderVars, loop, caller>>

(* A query that frees the chunk embeddings once it has scored with them. *)
QueryReleasingEmbeddings ==
    \E q \in Queries, top_k \in 0..MaxTopK :
        /\ last' = QueryIndex(index, q, top_k, tieRank)
        /\ index' = [index EXCEPT !.doc_embeddings = NoneM]
        /\ UNCHANGED <<HAS_SEMANTIC, tieRank, lastFit, cacheVars, normVars, concVars, loaderVars, loop, caller>>

Query ==
    \E q \in Queries, top_k \in 0..MaxTopK :
        /\ last' = QueryIndex(index, q, top_k, tieRank)
        /\ UNCHANGED <<index, HAS_SEMANTIC, tieRank, lastFit, cacheVars, normVars, concVars, loaderVars, loop, caller>>

NextIndex == Fit \/ Query

SpecIndex == InitIndex /\ [][NextIndex]_vars

----------------------------------------------------------------------------
(* Properties of HybridIndex (SpecIndex) *)

Returned == last.outcome = "returned"
Results == last.results
NumResults == Len(last.results)
NumChunks == Len(index.chunks)

(* Where in the sequence passed to fit the chunk of the i-th result was. *)
PositionOf(i) == Results[i].chunk.chunk_id + 1

(* The two similarities of the queried text to chunk j, from the chunk's   *)
(* own text, and the fused score the specification gives the chunk.        *)
ExpectedSem(j) == IF SemPresent(index) THEN 7 * SemSim(last.q, index.chunks[j].text) ELSE 0
ExpectedLex(j) == IF LexPresent(index) THEN 3 * LexSim(last.q, index.chunks[j].text) ELSE 0
ExpectedFused(j) == ExpectedSem(j) + ExpectedLex(j)

NonIncreasing == \A i \in 1..(NumResults - 1) : Results[i].score >= Results[i + 1].score

(* C1: on an index fitted on a non-empty chunk sequence, query(q, top_k)   *)
(* with top_k >= 0 returns at most top_k results, in non-increasing score. *)
C1_AtMostTopKSorted ==
    (Returned /\ NumChunks > 0) => NumResults <= last.top_k /\ NonIncreasing

(* C2: every result query returns has a fused score above 0, and when      *)
(* every chunk's fused score is at most 0 the result is empty.             *)
C2_OnlyPositiveScores ==
    Returned =>
        /\ \A i \in 1..NumResults : Results[i].score > 0
        /\ (\A j \in 1..NumChunks : ExpectedFused(j) <= 0) => Results = <<>>

(* A query returned some chunks and left out one that the cut would have   *)
(* let in, because its fused score is at most 0.                           *)
C2_Witness ==
    /\ Returned /\ NumResults > 0
    /\ last.top_k >= NumChunks
    /\ \E j \in 1..NumChunks : ExpectedFused(j) <= 0

(* C3: the score query ranks by and returns for a chunk is 0.7 times its   *)
(* semantic score if the semantic sub-model is present plus 0.3 times its  *)
(* lexical score if the lexical sub-model is present; with both absent     *)
(* every total is 0 (and nothing is returned).                             *)
C3_FusedScore ==
    Returned =>
        /\ \A i \in 1..NumResults :
              /\ PositionOf(i) \in 1..NumChunks
              /\ Results[i].chunk = index.chunks[PositionOf(i)]
              /\ Results[i].score = ExpectedFused(PositionOf(i))
        /\ \A i \in 1..(NumResults - 1) :
              ExpectedFused(PositionOf(i)) >= ExpectedFused(PositionOf(i + 1))
        /\ (~SemPresent(index) /\ ~LexPresent(index)) => Results = <<>>

(* A query on an index with both sub-models returned two chunks whose      *)
(* semantic and lexical scores both count.                                 *)
C3_Witness ==
    /\ Returned /\ NumResults >= 2
    /\ SemPresent(index) /\ LexPresent(index)
    /\ ExpectedSem(PositionOf(1)) > 0 /\ ExpectedLex(PositionOf(1)) > 0
    /\ Results[1].score > Results[2].score

(* C4: chunks of equal fused score come back in the order they were passed *)
(* to fit, and of equal-scored chunks across the top_k cut the earlier one *)
(* is kept.                                                                *)
C4_TiesByInsertionOrder ==
    Returned =>
        /\ \A i, k \in 1..NumResults :
              (i < k /\ Results[i].score = Results[k].score)
                  => PositionOf(i) < PositionOf(k)
        /\ \A i \in 1..NumResults : \A j \in 1..NumChunks :
              (ExpectedFused(j) = Results[i].score
                 /\ \A k \in 1..NumResults : PositionOf(k) # j)
                  => PositionOf(i) < j

(* C5: query on an index that holds no chunks returns the empty sequence   *)
(* and does not raise.                                                     *)
C5_EmptyIndexReturnsEmpty ==
    (last.outcome # "none" /\ NumChunks = 0) => Returned /\ Results = <<>>

(* A query on an index that was fitted on chunks and then on the empty     *)
(* sequence, so that it still carries the matrix of the earlier fit.       *)
C5_Witness ==
    /\ last.outcome # "none" /\ NumChunks = 0
    /\ lastFit.called
    /\ ~index.tfidf_matrix.isNone

(* C6: after any sequence of fit calls, a sub-model whose most recent fit  *)
(* failed is absent: the following query does not raise and adds nothing   *)
(* from that sub-model.                                                    *)
C6_FailedSubModelAbsent ==
    (last.outcome # "none" /\ lastFit.called) =>
        /\ Returned
        /\ ~lastFit.lexOk =>
              \A i \in 1..NumResults :
                  Results[i].score = 7 * SemSim(last.q, Results[i].chunk.text)
        /\ ~lastFit.semOk =>
              \A i \in 1..NumResults :
                  Results[i].score = 3 * LexSim(last.q, Results[i].chunk.text)

(* C7: with the semantic sub-model absent query ranks by the lexical score *)
(* alone (non-increasing, positive lexical scores only), with the lexical  *)
(* sub-model absent by the semantic score alone, and neither case raises.  *)
C7_DegradedRanking ==
    (last.outcome # "none" /\ NumChunks > 0) =>
        /\ ~SemPresent(index) =>
              /\ Returned
              /\ \A i \in 1..NumResults :
                    /\ Results[i].score = ExpectedLex(PositionOf(i))
                    /\ Results[i].score > 0
              /\ NonIncreasing
        /\ ~LexPresent(index) =>
              /\ Returned
              /\ \A i \in 1..NumResults :
                    /\ Results[i].score = ExpectedSem(PositionOf(i))
                    /\ Results[i].score > 0
              /\ NonIncreasing

C25_MatrixRowsMatchChunks ==
    NumChunks > 0 =>
        /\ LexPresent(index) => index.tfidf_matrix.rows = ChunkTexts(index.chunks)
        /\ SemPresent(index) => index.doc_embeddings.rows = ChunkTexts(index.chunks)

(* The chunks whose fused score is above 0, and the chunks a query left    *)
(* out of its result.                                                      *)
PositiveChunks == {j \in 1..NumChunks : ExpectedFused(j) > 0}
ReturnedChunks == {PositionOf(i) : i \in 1..NumResults}

(* C28: for top_k >= 1 the result of query has min(top_k, number of chunks *)
(* with a fused score above 0) entries, and no chunk left out has a fused  *)
(* score above that of a chunk returned.                                   *)
C28_BestScoringChunks ==
    (Returned /\ last.top_k >= 1) =>
        /\ NumResults = Min(last.top_k, Cardinality(PositiveChunks))
        /\ Cardinality(ReturnedChunks) = NumResults
        /\ \A j \in (1..NumChunks) \ ReturnedChunks : \A i \in 1..NumResults :
               ExpectedFused(j) <= Results[i].score

(* The cut left out a chunk with a positive score, lower than the score    *)
(* of the chunk returned.                                                  *)
C28_Witness ==
    /\ Returned /\ last.top_k >= 1
    /\ NumResults = last.top_k
    /\ \E j \in PositiveChunks \ ReturnedChunks : ExpectedFused(j) < Results[NumResults].score

----------------------------------------------------------------------------
(* The index cache: get_or_create_index and clear_index_cache *)

(* pickle.dump writes the instance's attributes, pickle.load builds a new  *)
(* instance from them.                                                     *)
Pickle(idx) ==
    <<idx.chunks, idx.vectorizer, idx.tfidf_matrix, idx.embedder, idx.doc_embeddings>>

UnpickleWithoutMatrix(data) ==
    [chunks |-> data[1],
     vectorizer |-> data[2],
     tfidf_matrix |-> NoneM,
     embedder |-> data[4],
     doc_embeddings |-> data[5]]

Unpickle(data) ==
    [chunks |-> data[1],
     vectorizer |-> data[2],
     tfidf_matrix |-> data[3],
     embedder |-> data[4],
     doc_embeddings |-> data[5]]

(* The file: absent, written in full, or partly written.  src is history: *)
(* the object pickle.dump was given.                                       *)
AbsentBlob == [state |-> "absent", data |-> <<>>, src |-> EmptyIndex]
PartialBlob == [state |-> "partial", data |-> <<>>, src |-> EmptyIndex]
WrittenBlob(idx) == [state |-> "written", data |-> Pickle(idx), src |-> idx]

(* os.path.exists(INDEX_FILE) *)
BlobExists(b) == b.state # "absent"
(* pickle.load returns only on a blob that was written in full. *)
Deserializable(b) == b.state = "written"

(* build_chunks(): the chunks of the documents under data/docs.  It raises *)
(* when the directory cannot be made or read.                              *)
BuildChunksRaises(c) == ~c.available
BuildChunksFirstFile(c) == MkChunks(IF c.texts = <<>> THEN <<>> ELSE <<Head(c.texts)>>)

BuildChunks(c) == MkChunks(c.texts)

(* open(INDEX_FILE, "wb") and pickle.dump: the file is written in full     *)
(* ("ok"), is left truncated or half-written ("partial"), or cannot be     *)
(* opened and stays as it was ("not_opened").                              *)
WriteOutcomes == {"ok", "partial", "not_opened"}

WriteBlobNever(b, idx, w) == b

WriteBlob(b, idx, w) ==
    CASE w = "ok" -> WrittenBlob(idx)
      [] w = "partial" -> PartialBlob
      [] OTHER -> b

(* st.cache_resource keeps the value the function returned as its one     *)
(* entry, with no expiry, until st.cache_resource.clear() drops it.        *)
CacheResourceStoreNothing(entry) == NoIndex

CacheResourceStore(entry) == entry

CacheResourceKeep(entry) == entry

CacheResourceClear(entry) == NoIndex

(* os.remove(INDEX_FILE) *)
RemoveBlob(b) == AbsentBlob

(* What the cache operation before this one was, for the history. *)
PrevOp(e) == IF e.op \in {"corpus", "restart"} THEN e.prev
             ELSE IF e.op \in {"clear", "upload", "reset"} THEN "clear " \o e.path
             ELSE e.op

Event(op, path, wrote, changed, found) ==
    [op |-> op, path |-> path, wrote |-> wrote, prev |-> PrevOp(ev),
     changed |-> changed, found |-> found]

(* A call served by st.cache_resource from its entry. *)
GetCached ==
    /\ ~slot.isNone
    /\ ret' = slot
    /\ ev' = Event("get", "memo", "none", ev.op = "corpus", "none")
    /\ UNCHANGED <<corpus, slot, blob, nextId, hist, indexVars, HAS_SEMANTIC, tieRank, normVars, concVars, loaderVars, loop, caller>>

(* The body of get_or_create_index, step 1: the blob is there and loads. *)
GetLoaded ==
    /\ slot.isNone
    /\ nextId < MaxInstances
    /\ BlobExists(blob) /\ Deserializable(blob)
    /\ LET loaded == [isNone |-> FALSE, id |-> nextId, idx |-> Unpickle(blob.data)]
       IN  slot' = CacheResourceStore(loaded) /\ ret' = loaded
    /\ nextId' = nextId + 1
    /\ hist' = [hist EXCEPT !.loaded = @ + 1]
    /\ ev' = Event("get", "loaded", "none", ev.op = "corpus", blob.state)
    /\ UNCHANGED <<corpus, blob, indexVars, HAS_SEMANTIC, tieRank, normVars, concVars, loaderVars, loop, caller>>

(* The body of get_or_create_index, step 2: no blob, or one that does not  *)
(* load.  A new HybridIndex is fitted and written only when build_chunks   *)
(* returns chunks; every exception ends the try block and the index is     *)
(* returned as it is.                                                      *)
GetBuilt ==
    /\ slot.isNone
    /\ nextId < MaxInstances
    /\ ~(BlobExists(blob) /\ Deserializable(blob))
    /\ \E lexOk \in BOOLEAN, sem \in SemOutcomes(EmptyIndex), w \in WriteOutcomes :
        LET chunks == BuildChunks(corpus)
            fits == ~BuildChunksRaises(corpus) /\ chunks # <<>>
            idx == IF fits THEN FitIndex(EmptyIndex, chunks, HAS_SEMANTIC, lexOk, sem)
                   ELSE EmptyIndex
        IN  /\ ~HAS_SEMANTIC => sem = "ok"
            /\ ~fits => lexOk /\ sem = "ok" /\ w = "ok"
            /\ slot' = CacheResourceStore([isNone |-> FALSE, id |-> nextId, idx |-> idx])
            /\ ret' = [isNone |-> FALSE, id |-> nextId, idx |-> idx]
            /\ blob' = IF fits THEN WriteBlob(blob, idx, w) ELSE blob
            /\ ev' = Event("get",
                           IF BuildChunksRaises(corpus) THEN "build failed" ELSE "built",
                           IF fits THEN w ELSE "none",
                           ev.op = "corpus", blob.state)
    /\ nextId' = nextId + 1
    /\ hist' = [hist EXCEPT !.builds = @ + 1]
    /\ UNCHANGED <<corpus, indexVars, HAS_SEMANTIC, tieRank, normVars, concVars, loaderVars, loop, caller>>

GetOrCreateIndex == GetCached \/ GetLoaded \/ GetBuilt

(* clear_index_cache: os.remove may raise, and then the cache entry is not *)
(* cleared.                                                                *)
ClearIndexCache ==
    \E removeOk \in BOOLEAN :
        /\ ~BlobExists(blob) => removeOk
        /\ blob' = IF ~BlobExists(blob) \/ ~removeOk THEN blob ELSE RemoveBlob(blob)
        /\ slot' = IF removeOk THEN CacheResourceClear(slot) ELSE slot
        /\ hist' = [hist EXCEPT !.cleared = TRUE]
        /\ ev' = Event("clear", IF removeOk THEN "returned" ELSE "raised",
                       "none", FALSE, "none")
        /\ UNCHANGED <<corpus, nextId, ret, indexVars, HAS_SEMANTIC, tieRank, normVars, concVars, loaderVars, loop, caller>>

(* Documents are added to or removed from data/docs. *)
CorpusStates ==
    {[available |-> TRUE, texts |-> t] : t \in SeqsUpTo(Texts, MaxCorpusChunks)}
        \cup {[available |-> FALSE, texts |-> <<>>]}

(* What data/docs holds after a file was saved into it: one document more, *)
(* or a document of that name with the new text.                           *)
AfterUpload(c) ==
    {[available |-> TRUE, texts |-> Append(c.texts, t)] :
        t \in IF Len(c.texts) < MaxCorpusChunks THEN Texts ELSE {}}
    \cup {[available |-> TRUE, texts |-> [c.texts EXCEPT ![i] = t]] :
            i \in 1..Len(c.texts), t \in Texts}

(* One change of data/docs made outside the app: a file is added, edited  *)
(* or deleted, or the directory is lost or made again.                     *)
WithoutDocument(texts, i) ==
    [j \in 1..(Len(texts) - 1) |-> IF j < i THEN texts[j] ELSE texts[j + 1]]

AfterChange(c) ==
    IF ~c.available THEN {[available |-> TRUE, texts |-> <<>>]}
    ELSE ({[available |-> FALSE, texts |-> <<>>]}
            \cup AfterUpload(c)
            \cup {[available |-> TRUE, texts |-> WithoutDocument(c.texts, i)] :
                    i \in 1..Len(c.texts)}) \cap CorpusStates

ChangeCorpus ==
    \E c \in AfterChange(corpus) :
        /\ c # corpus
        /\ corpus' = c
        /\ ev' = Event("corpus", "none", "none", TRUE, "none")
        /\ UNCHANGED <<slot, blob, nextId, ret, hist, indexVars, HAS_SEMANTIC, tieRank, normVars, concVars, loaderVars, loop, caller>>

(* The document manager of the app.  An upload that saved a file, and the  *)
(* Reset Index button after it removed the files of data/docs, call        *)
(* clear_index_cache inside a try block whose except clause passes.        *)
UploadDocuments ==
    \E c \in AfterUpload(corpus), removeOk \in BOOLEAN :
        /\ corpus.available
        /\ ~BlobExists(blob) => removeOk
        /\ corpus' = c
        /\ blob' = IF ~BlobExists(blob) \/ ~removeOk THEN blob ELSE RemoveBlob(blob)
        /\ slot' = IF removeOk THEN CacheResourceClear(slot) ELSE slot
        /\ hist' = [hist EXCEPT !.cleared = TRUE]
        /\ ev' = Event("upload", IF removeOk THEN "returned" ELSE "raised",
                       "none", TRUE, "none")
        /\ UNCHANGED <<nextId, ret, indexVars, HAS_SEMANTIC, tieRank, normVars, concVars, loaderVars, loop, caller>>

ResetIndex ==
    \E removeOk \in BOOLEAN :
        /\ corpus.available
        /\ ~BlobExists(blob) => removeOk
        /\ corpus' = [available |-> TRUE, texts |-> <<>>]
        /\ blob' = IF ~BlobExists(blob) \/ ~removeOk THEN blob ELSE RemoveBlob(blob)
        /\ slot' = IF removeOk THEN CacheResourceClear(slot) ELSE slot
        /\ hist' = [hist EXCEPT !.cleared = TRUE]
        /\ ev' = Event("reset", IF removeOk THEN "returned" ELSE "raised",
                       "none", TRUE, "none")
        /\ UNCHANGED <<nextId, ret, indexVars, HAS_SEMANTIC, tieRank, normVars, concVars, loaderVars, loop, caller>>

(* The process ends and a new one starts: the cache entry and every object *)
(* are gone, the files stay.                                               *)
Restart ==
    /\ nextId > 0
    /\ slot' = NoIndex
    /\ ret' = NoIndex
    /\ nextId' = 0
    /\ hist' = NoHistory
    /\ ev' = Event("restart", "none", "none", FALSE, "none")
    /\ UNCHANGED <<corpus, blob, indexVars, HAS_SEMANTIC, tieRank, normVars, concVars, loaderVars, loop, caller>>

InitCache ==
    /\ index = EmptyIndex
    /\ HAS_SEMANTIC \in BOOLEAN
    /\ tieRank \in TieOrders
    /\ lastFit = NoFit
    /\ last = NoOutcome
    /\ CacheIdle
    /\ NormIdle
    /\ NoHandlers
    /\ OthersAbsent

NextCache ==
    \/ GetOrCreateIndex \/ ClearIndexCache \/ ChangeCorpus \/ Restart
    \/ UploadDocuments \/ ResetIndex

SpecCache == InitCache /\ [][NextCache]_vars

----------------------------------------------------------------------------
(* Properties of the index cache (SpecCache) *)

(* The most recent operation was a get_or_create_index call that ran step *)
(* 2 of the body: the entry was empty and no blob could be loaded.         *)
JustBuilt == ev.op = "get" /\ ev.path \in {"built", "build failed"}

(* C8 as stated: whenever get_or_create_index builds a fresh index, for    *)
(* every corpus state, a blob exists on return that deserializes to the    *)
(* returned index.                                                         *)
C8_BuildAlwaysPersists ==
    JustBuilt => BlobExists(blob) /\ Deserializable(blob) /\ Unpickle(blob.data) = ret.idx

(* C8 as amended: the fresh index holds the chunks build_chunks returns at *)
(* that moment; with at least one chunk and a write that succeeds, a blob  *)
(* exists on return that deserializes to the returned index; with no chunk *)
(* or a failed write, no deserializable blob exists on return.             *)
C8_BuildPersistsNonEmpty ==
    JustBuilt =>
        /\ ret.idx.chunks = BuildChunks(corpus)
        /\ slot = ret
        /\ IF ret.idx.chunks # <<>> /\ ev.wrote = "ok"
           THEN BlobExists(blob) /\ Deserializable(blob) /\ Unpickle(blob.data) = ret.idx
           ELSE ~Deserializable(blob)

(* A build over a corpus with chunks, fitted and written in full. *)
C8_Witness ==
    /\ JustBuilt /\ ev.wrote = "ok"
    /\ Len(ret.idx.chunks) = MaxCorpusChunks
    /\ ret.idx.vectorizer = "fitted"

C10_ClearThenRebuild ==
    /\ (ev.op = "clear" /\ ev.path = "returned") => ~BlobExists(blob) /\ slot.isNone
    /\ (ev.op = "get" /\ ev.prev = "clear returned") =>
          /\ JustBuilt
          /\ ret.idx.chunks = BuildChunks(corpus)
          /\ ret.idx.chunks # <<>> => ret.idx.vectorizer # "None"

(* The corpus changed between a clear_index_cache that returned and the    *)
(* get_or_create_index call after it, which rebuilt the index of an        *)
(* earlier call in this process.                                           *)
C10_Witness ==
    /\ ev.op = "get" /\ ev.prev = "clear returned" /\ ev.changed
    /\ ret.id > 0
    /\ ret.idx.chunks # <<>>

(* C14: when the process has no memoized index and the file holds a blob   *)
(* that deserializes, get_or_create_index returns the deserialized index:  *)
(* it equals the index that was persisted and answers every query as that  *)
(* index does, and the call runs neither build_chunks nor fit and leaves   *)
(* the file as it was.                                                     *)
Loaded == ev.op = "get" /\ ev.path = "loaded"

C15_CorruptBlobRebuilds ==
    (ev.op = "get" /\ ev.found = "partial") =>
        /\ ev.path \in {"built", "build failed"}
        /\ ~ret.isNone /\ slot = ret
        /\ ev.path = "built" => ret.idx.chunks = MkChunks(corpus.texts)
        /\ ev.path = "build failed" => ret.idx = EmptyIndex
        /\ (ev.path = "built" /\ ev.wrote = "ok") => blob = WrittenBlob(ret.idx)

C15_Witness ==
    /\ ev.op = "get" /\ ev.found = "partial" /\ ev.path = "built"
    /\ ret.idx.chunks # <<>>
    /\ ev.wrote = "ok"

(* C16: after the upload handler or the Reset Index handler has run, the   *)
(* file is absent and the process holds no memoized index.                 *)
C16_HandlersInvalidate ==
    ev.op \in {"upload", "reset"} => (~BlobExists(blob) /\ slot.isNone)

(* C29: whenever a file exists at INDEX_FILE (no write is in progress      *)
(* between two operations), it deserializes to a fully fitted index that   *)
(* holds at least one chunk.                                               *)
C29_BlobAlwaysLoadable ==
    BlobExists(blob) =>
        /\ Deserializable(blob)
        /\ Unpickle(blob.data).chunks # <<>>
        /\ Unpickle(blob.data).vectorizer # "None"

----------------------------------------------------------------------------
(* SpecNorm: _normalize_retriever_result and the retrieval of answer_query *)

MaxItems == 2

(* The shapes of entry the function tells apart. *)
DictItem == [BlankItem EXCEPT !.kind = "dict", !.str = "{...}"]
ObjItem == [BlankItem EXCEPT !.kind = "obj", !.str = "<object>"]
PairItem == [BlankItem EXCEPT !.kind = "pair", !.str = "(...)"]

ItemShapes ==
    { StrItem("section 378"),
      \* (score, chunk mapping), (score, string), and (document, score)
      [PairItem EXCEPT !.first = Num(90), !.secondIsDict = TRUE,
                       !.source = Str("ipc.txt"), !.text = Str("theft")],
      [PairItem EXCEPT !.first = Num(7), !.second = Str("plain")],
      [PairItem EXCEPT !.first = Dict("", 1), !.second = Num(90)],
      \* mappings under the key names the function knows
      [DictItem EXCEPT !.source = Str("ipc.txt"), !.text = Str("theft"),
                       !.score = Num(90)],
      [DictItem EXCEPT !.filename = Str("act.pdf"), !.content = Str("offer"),
                       !.similarity = Num(7)],
      [DictItem EXCEPT !.meta = Dict("act.pdf", 0), !.page_content = Str("offer")],
      [DictItem EXCEPT !.text = Str("theft"), !.meta = Str("notes")],
      [DictItem EXCEPT !.source = Num(7), !.text = Num(7)],
      [DictItem EXCEPT !.source = Str("ipc.txt"), !.text = Str("theft"),
                       !.score = Num(0)],
      [DictItem EXCEPT !.str = "{}"],
      \* objects with attributes, with and without metadata
      [ObjItem EXCEPT !.source = Str("ipc.txt"), !.text = Str("theft"),
                      !.score = Num(90)],
      [ObjItem EXCEPT !.source = Str("ipc.txt"), !.text = Str("theft"),
                      !.score = Num(90), !.hasMetadata = TRUE],
      [ObjItem EXCEPT !.hasMetadata = TRUE, !.metadata = Dict("act.pdf", 1),
                      !.page_content = Str("offer")],
      [ObjItem EXCEPT !.text = Str("theft"), !.hasMetadata = TRUE,
                      !.metadata = Str("notes")],
      [ObjItem EXCEPT !.str = "5"] }

RetrieverResults ==
    {NoneResult, OtherResult("section 378")}
        \cup {ListResult(items) : items \in SeqsUpTo(ItemShapes, MaxItems)}

(* A direct call of _normalize_retriever_result on the argument drawn. *)
NormalizeResult ==
    /\ call.caller = "normalize" /\ ~call.done
    /\ call' = [call EXCEPT !.done = TRUE]
    /\ norm' = NormalizeRetrieverResult(call.res)
    /\ UNCHANGED <<passages, indexVars, HAS_SEMANTIC, tieRank, cacheVars, concVars, loaderVars, loop, caller>>

(* answer_query with the retriever that _try_get_retriever_functions makes *)
(* of get_or_create_index: the getter normalizes what HybridIndex.query    *)
(* returns and answer_query normalizes the getter's list again.  A query   *)
(* that raises leaves the getter and answer_query retrieves nothing.  idx  *)
(* is the index get_or_create_index hands out, last the query's outcome.   *)
AnswerQueryRetrieve ==
    \E texts \in SeqsUpTo(Texts, MaxChunks), q \in Queries, top_k \in 0..MaxTopK,
       lexOk \in BOOLEAN, sem \in SemOutcomes(EmptyIndex) :
        LET idx == IF texts = <<>> THEN EmptyIndex
                   ELSE FitIndex(EmptyIndex, MkChunks(texts), HAS_SEMANTIC, lexOk, sem)
            out == QueryIndex(idx, q, top_k, tieRank)
            raw == QueryResultsAsList(out.results)
            got == NormalizeRetrieverResult(raw)
        IN  /\ call.caller = "answer_query" /\ ~call.done
            /\ lexOk => LexCanSucceed(MkChunks(texts))
            /\ ~HAS_SEMANTIC => sem = "ok"
            /\ texts = <<>> => lexOk /\ sem = "ok"
            /\ last' = out
            /\ call' = [caller |-> "answer_query", res |-> raw, done |-> TRUE]
            /\ norm' = IF out.outcome = "returned" THEN got ELSE <<>>
            /\ passages' =
                    IF out.outcome = "returned"
                    THEN NormalizeRetrieverResult(
                            ListResult([i \in 1..Len(got) |-> EntryAsItem(got[i])]))
                    ELSE <<>>
            /\ UNCHANGED <<index, lastFit, HAS_SEMANTIC, tieRank, cacheVars, concVars, loaderVars, loop, caller>>

InitNorm ==
    /\ index = EmptyIndex
    /\ HAS_SEMANTIC \in BOOLEAN
    /\ tieRank \in TieOrders
    /\ lastFit = NoFit
    /\ last = NoOutcome
    /\ CacheIdle
    /\ call \in {[caller |-> "normalize", res |-> r, done |-> FALSE] :
                    r \in RetrieverResults}
                \cup {[caller |-> "answer_query", res |-> NoneResult, done |-> FALSE]}
    /\ norm = <<>>
    /\ passages = <<>>
    /\ NoHandlers
    /\ OthersAbsent

NextNorm == NormalizeResult \/ AnswerQueryRetrieve

SpecNorm == InitNorm /\ [][NextNorm]_vars

Items == call.res.items
Normalized == call.caller = "normalize" /\ call.done
Retrieved == call.caller = "answer_query" /\ call.done

(* C17: for a list, the output has one entry per input entry, in order; a  *)
(* malformed entry comes out with source "unknown" and no entry is lost.   *)
C17_OneEntryPerInput ==
    (Normalized /\ call.res.t = "list") =>
        /\ Len(norm) = Len(Items)
        /\ \A i \in 1..Len(Items) :
               NormalizeItemRaises(Items[i]) => norm[i].source = Unknown

(* C18: every entry of the output has a non-empty string as source, a      *)
(* string as text, and a number or None as score.                          *)
WellTyped(e) ==
    /\ e.source.t = "str" /\ e.source.s # ""
    /\ e.text.t = "str"
    /\ e.score.t \in {"num", "none"}

C18_UniformEntries ==
    Normalized => \A i \in 1..Len(norm) : WellTyped(norm[i])

(* C19: what answer_query retrieves from HybridIndex.query, after both     *)
(* normalizations, is, position by position, the source and text of the    *)
(* chunk and the fused score of each result of the query.                  *)
C19_QueryResultsSurvive ==
    (Retrieved /\ last.outcome = "returned") =>
        /\ Len(passages) = Len(last.results)
        /\ \A i \in 1..Len(last.results) :
               passages[i] = Entry(Str(DocSource(last.results[i].chunk)),
                                   Str(last.results[i].chunk.text),
                                   Num(last.results[i].score))

C19_Witness ==
    /\ Retrieved /\ last.outcome = "returned"
    /\ Len(passages) = 2
    /\ passages[1].text # passages[2].text
    /\ passages[1].score.n > passages[2].score.n

(* C20: an object that has a source, a text and a score attribute comes    *)
(* out with that source, text and score, with or without metadata.         *)
HasAllThree(item) ==
    /\ item.kind = "obj"
    /\ item.source.t = "str" /\ item.source.s # ""
    /\ item.text.t = "str" /\ item.text.s # ""
    /\ item.score.t = "num"

C20_ObjectAttributesKept ==
    (Normalized /\ call.res.t = "list"
        /\ \A i \in 1..Len(Items) : HasAllThree(Items[i])) =>
        /\ Len(norm) = Len(Items)
        /\ \A i \in 1..Len(Items) :
               norm[i] = Entry(Items[i].source, Items[i].text, Items[i].score)

(* The number a mapping carries as its score: the value under score, or   *)
(* the one under similarity when there is no score key.                    *)
CarriedScore(item) == IF item.score.t # "none" THEN item.score ELSE item.similarity

(* C21: the entry made of a mapping has as its score exactly the number    *)
(* the mapping carries under score (or, score missing, under similarity),  *)
(* and None only when the mapping carries neither.                         *)
C21_MappingScoreKept ==
    (Normalized /\ call.res.t = "list" /\ Len(norm) = Len(Items)) =>
        \A i \in 1..Len(Items) :
            Items[i].kind = "dict" => norm[i].score = CarriedScore(Items[i])

----------------------------------------------------------------------------
(* SpecConc: request handlers of two processes on one data directory *)

concRest == <<indexVars, HAS_SEMANTIC, tieRank, slot, nextId, ret, ev, hist, normVars,
              loaderVars, loop, caller>>

(* data/docs holds no document, or one. *)
ConcCorpusStates ==
    {[available |-> TRUE, texts |-> <<>>],
     [available |-> TRUE, texts |-> <<"penalty for theft">>]}

(* The identity of the object, and of the file, the handler's current call *)
(* creates.                                                                *)
NewId(h) == h * (MaxOps + 1) + hs[h].calls

(* Inside the function body, where st.cache_resource holds the lock of the *)
(* cache entry.                                                            *)
BodyPcs == {"body", "build", "fitting", "open", "dump", "store"}

(* cache.compute_value_lock(value_key) of the cache object g of process p  *)
(* is free for h: no other thread of p computes for that cache object.     *)
LockFreeAlways(p, g, h) == TRUE

LockFree(p, g, h) ==
    \A o \in Handlers \ {h} :
        ~(ProcOf(o) = p /\ hs[o].gen = g /\ hs[o].pc \in BodyPcs)

(* Handler o is between open(INDEX_FILE, "wb") and the end of pickle.dump  *)
(* on the file ino.                                                        *)
Writing(o, ino) == hs[o].pc = "dump" /\ hs[o].ino = ino

OthersIdle(h) == \A o \in Handlers \ {h} : hs[o].pc = "idle"

(* The call enters the st.cache_resource wrapper: it takes the process's   *)
(* current cache object and returns its entry, or goes for the lock.       *)
CallStart ==
    \E h \in Handlers :
        LET g == caches[ProcOf(h)].gen
            e == caches[ProcOf(h)].entries[g]
            exp == conc.fresh[ProcOf(h)] /\ OthersIdle(h)
        IN  /\ hs[h].pc = "idle" /\ conc.calls + conc.clears < MaxOps
            /\ hs' = IF e.isNone
                      THEN [hs EXCEPT ![h].pc = "wait", ![h].gen = g,
                                      ![h].expect = exp, ![h].waited = FALSE]
                      ELSE [hs EXCEPT ![h].ret = e, ![h].calls = @ + 1,
                                      ![h].expect = exp, ![h].waited = FALSE]
            /\ conc' = [conc EXCEPT !.calls = @ + 1]
            /\ UNCHANGED <<caches, corpus, blob, concRest>>

(* With the lock, the wrapper reads the entry again: a value another       *)
(* thread stored meanwhile is returned, otherwise the body runs.           *)
CallAcquire ==
    \E h \in Handlers :
        LET e == caches[ProcOf(h)].entries[hs[h].gen]
        IN  /\ hs[h].pc = "wait"
            /\ LockFree(ProcOf(h), hs[h].gen, h)
            /\ hs' = IF e.isNone
                      THEN [hs EXCEPT ![h].pc = "body"]
                      ELSE [hs EXCEPT ![h].pc = "idle", ![h].ret = e,
                                      ![h].calls = @ + 1, ![h].waited = TRUE]
            /\ UNCHANGED <<caches, conc, corpus, blob, concRest>>

(* Step 1 of the body: os.path.exists, open and pickle.load.  A file that  *)
(* is being written, or was left half-written, makes pickle.load raise.    *)
(* readPartial records a load from a file a writer still has open.         *)
CallLoad ==
    \E h \in Handlers :
        /\ hs[h].pc = "body"
        /\ hs' = IF Deserializable(blob)
                  THEN [hs EXCEPT ![h].pc = "store", ![h].idx = Unpickle(blob.data),
                                  ![h].id = NewId(h)]
                  ELSE [hs EXCEPT ![h].pc = "build"]
        /\ conc' = [conc EXCEPT
                        !.readPartial = @ \/ (/\ BlobExists(blob) /\ ~Deserializable(blob)
                                              /\ \E w \in Handlers : Writing(w, conc.ino))]
        /\ UNCHANGED <<caches, corpus, blob, concRest>>

(* Step 2: HybridIndex(), build_chunks() and, when there are chunks, the   *)
(* start of fit, which takes the chunks before it fits the sub-models.     *)
CallBuildChunks ==
    \E h \in Handlers :
        LET p == ProcOf(h)
            fits == ~BuildChunksRaises(corpus) /\ BuildChunks(corpus) # <<>>
        IN  /\ hs[h].pc = "build"
            /\ hs' = [hs EXCEPT
                         ![h].pc = IF fits THEN "fitting" ELSE "store",
                         ![h].idx = IF fits
                                    THEN [EmptyIndex EXCEPT !.chunks = BuildChunks(corpus)]
                                    ELSE EmptyIndex,
                         ![h].id = NewId(h)]
            /\ conc' = [conc EXCEPT !.builds[p] = @ + 1,
                                    !.fits[p] = IF fits THEN @ + 1 ELSE @]
            /\ UNCHANGED <<caches, corpus, blob, concRest>>

(* fit returns. *)
CallFit ==
    \E h \in Handlers, lexOk \in BOOLEAN, sem \in SemOutcomes(EmptyIndex) :
        /\ hs[h].pc = "fitting"
        /\ lexOk => LexCanSucceed(hs[h].idx.chunks)
        /\ ~HAS_SEMANTIC => sem = "ok"
        /\ hs' = [hs EXCEPT
                     ![h].pc = "open",
                     ![h].idx = FitIndex(EmptyIndex, hs[h].idx.chunks,
                                         HAS_SEMANTIC, lexOk, sem)]
        /\ UNCHANGED <<caches, conc, corpus, blob, concRest>>

(* open(INDEX_FILE, "wb") creates the file or truncates the one there; it  *)
(* disturbs, and is disturbed by, a writer that has the same file open.    *)
CallOpen ==
    \E h \in Handlers, ok \in BOOLEAN :
        LET ino == IF BlobExists(blob) THEN conc.ino ELSE NewId(h)
        IN  /\ hs[h].pc = "open"
            /\ IF ok
               THEN /\ hs' = [o \in Handlers |->
                                IF o = h
                                THEN [hs[o] EXCEPT
                                        !.pc = "dump", !.ino = ino,
                                        !.disturbed = \E w \in Handlers \ {h} :
                                                          Writing(w, ino)]
                                ELSE IF Writing(o, ino)
                                     THEN [hs[o] EXCEPT !.disturbed = TRUE]
                                     ELSE hs[o]]
                    /\ blob' = PartialBlob
                    /\ conc' = [conc EXCEPT !.ino = ino]
               ELSE /\ hs' = [hs EXCEPT ![h].pc = "store"]
                    /\ UNCHANGED <<blob, conc>>
            /\ UNCHANGED <<caches, corpus, concRest>>

(* pickle.dump and the close of the file.  The path shows the outcome only *)
(* while it still names the file the handler opened; bytes of two writers  *)
(* in one file may or may not make a blob that loads.                      *)
CallDump ==
    \E h \in Handlers, w \in {"ok", "partial"} :
        /\ hs[h].pc = "dump"
        /\ (w = "partial" /\ ~hs[h].disturbed) => BlobExists(blob) /\ conc.ino = hs[h].ino
        /\ blob' = IF BlobExists(blob) /\ conc.ino = hs[h].ino
                    THEN WriteBlob(blob, hs[h].idx, w)
                    ELSE blob
        /\ hs' = [hs EXCEPT ![h].pc = "store", ![h].ino = 0, ![h].disturbed = FALSE]
        /\ UNCHANGED <<caches, conc, corpus, concRest>>

(* The body returns: the wrapper stores the value in the cache object it   *)
(* holds, clear() or not, releases the lock and returns the value.         *)
CallStore ==
    \E h \in Handlers :
        LET v == [isNone |-> FALSE, id |-> hs[h].id, idx |-> hs[h].idx]
        IN  /\ hs[h].pc = "store"
            /\ caches' = [caches EXCEPT
                             ![ProcOf(h)].entries[hs[h].gen] = CacheResourceStore(v)]
            /\ hs' = [hs EXCEPT ![h].pc = "idle", ![h].ret = v, ![h].calls = @ + 1,
                                ![h].idx = EmptyIndex, ![h].id = 0]
            /\ UNCHANGED <<conc, corpus, blob, concRest>>

(* clear_index_cache, first half: os.path.exists and os.remove, which      *)
(* raises where the file cannot be removed and ends the call.              *)
ClearRemove ==
    \E h \in Handlers, removeOk \in BOOLEAN :
        /\ hs[h].pc = "idle"
        /\ conc.calls + conc.clears < MaxOps
        /\ ~BlobExists(blob) => removeOk
        /\ hs' = [hs EXCEPT ![h].pc = IF removeOk THEN "clearing" ELSE "idle",
                            ![h].afterChange = removeOk]
        /\ blob' = IF BlobExists(blob) /\ removeOk THEN RemoveBlob(blob) ELSE blob
        /\ conc' = [conc EXCEPT !.clears = @ + 1,
                                !.ino = IF removeOk THEN 0 ELSE @]
        /\ UNCHANGED <<caches, corpus, concRest>>

(* clear_index_cache, second half: st.cache_resource.clear() replaces the  *)
(* process's caches by new, empty ones.                                    *)
ClearCache ==
    \E h \in Handlers :
        /\ hs[h].pc = "clearing"
        /\ caches' = [caches EXCEPT ![ProcOf(h)].gen = @ + 1]
        /\ conc' = [conc EXCEPT !.fresh[ProcOf(h)] = @ \/ hs[h].afterChange]
        /\ hs' = [hs EXCEPT ![h].pc = "idle", ![h].afterChange = FALSE]
        /\ UNCHANGED <<corpus, blob, concRest>>

(* Documents are added to or removed from data/docs. *)
ConcChangeCorpus ==
    \E c \in ConcCorpusStates :
        /\ c # corpus
        /\ corpus' = c
        /\ conc' = [conc EXCEPT !.fresh = [p \in Procs |-> FALSE]]
        /\ hs' = [o \in Handlers |->
                    IF hs[o].pc = "clearing" THEN [hs[o] EXCEPT !.afterChange = FALSE]
                    ELSE hs[o]]
        /\ UNCHANGED <<caches, blob, concRest>>

InitConc ==
    /\ index = EmptyIndex
    /\ HAS_SEMANTIC = FALSE
    /\ tieRank = "index order"
    /\ lastFit = NoFit
    /\ last = NoOutcome
    /\ CacheIdle
    /\ NormIdle
    /\ ConcIdle
    /\ OthersAbsent

NextConc ==
    \/ CallStart \/ CallAcquire \/ CallLoad \/ CallBuildChunks \/ CallFit
    \/ CallOpen \/ CallDump \/ CallStore
    \/ ClearRemove \/ ClearCache \/ ConcChangeCorpus

SpecConc == InitConc /\ [][NextConc]_vars

ReturnedTo(h) == hs[h].pc = "idle" /\ hs[h].calls > 0

(* fit has run to its end on the index. *)
FullyFitted(idx) == idx.chunks # <<>> /\ idx.vectorizer # "None"

(* The cache of process 1 started cold and nothing but calls of            *)
(* get_or_create_index by its handlers has happened since.                 *)
ColdStart == conc.clears = 0 /\ hs[3] = IdleHandler

(* C11 as stated: handlers calling get_or_create_index concurrently on a   *)
(* cold cache make build_chunks and fit run exactly once in total, and     *)
(* every caller returns the same, fully fitted index.                      *)
C11_ExactlyOneFit ==
    ColdStart =>
        /\ conc.builds[1] <= 1 /\ conc.fits[1] <= 1
        /\ \A h \in {1, 2} :
               ReturnedTo(h) =>
                   /\ conc.builds[1] = 1 /\ conc.fits[1] = 1
                   /\ FullyFitted(hs[h].ret.idx)
        /\ (ReturnedTo(1) /\ ReturnedTo(2)) => hs[1].ret = hs[2].ret

(* C11 amended: on a cold cache of one process build_chunks runs exactly   *)
(* once; fit runs exactly once when build_chunks returned chunks and not   *)
(* at all otherwise; every caller returns the same index object, fully     *)
(* fitted in the first case and the empty HybridIndex in the second.       *)
C11_SingleFlight ==
    ColdStart =>
        /\ conc.builds[1] <= 1 /\ conc.fits[1] <= 1
        /\ \A h \in {1, 2} :
               ReturnedTo(h) =>
                   /\ conc.builds[1] = 1
                   /\ conc.fits[1] = 1 <=> hs[h].ret.idx.chunks # <<>>
                   /\ hs[h].ret.idx.chunks # <<>> => FullyFitted(hs[h].ret.idx)
                   /\ hs[h].ret.idx.chunks = <<>> => hs[h].ret.idx = EmptyIndex
        /\ (ReturnedTo(1) /\ ReturnedTo(2)) => hs[1].ret = hs[2].ret

C11_Witness ==
    /\ ColdStart
    /\ ReturnedTo(1) /\ ReturnedTo(2)
    /\ hs[1].waited \/ hs[2].waited
    /\ hs[1].ret = hs[2].ret
    /\ FullyFitted(hs[1].ret.idx)

(* Process 2 has made no call of get_or_create_index. *)
OneProcess == hs[3].calls = 0 /\ hs[3].pc \in {"idle", "clearing"}

(* C12: once clear_index_cache, called in process 1 after the last change  *)
(* of the corpus, and every build in flight at that time have finished, a  *)
(* call of get_or_create_index in process 1 returns an index built from    *)
(* the corpus as changed.                                                  *)
C12_NoStaleIndexAfterClear ==
    \A h \in {1, 2} :
        (OneProcess /\ ReturnedTo(h) /\ hs[h].expect /\ conc.fresh[1]) =>
            hs[h].ret.idx.chunks = MkChunks(corpus.texts)

(* C13: no call of get_or_create_index reads a blob that is being written, *)
(* and no caller gets an index on which fit has begun and not ended.       *)
C13_NoPartialRead ==
    /\ ~conc.readPartial
    /\ \A h \in Handlers :
           ReturnedTo(h) => (hs[h].ret.idx = EmptyIndex \/ FullyFitted(hs[h].ret.idx))

----------------------------------------------------------------------------
(* SpecChunk: one call of chunk_text, statement by statement *)

MaxWords == 4
MaxChunkTokens == 3
MaxOverlap == 4

(* The text of n words; word k is held as k. *)
TextOfWords(n) == [k \in 1..n |-> k]

ChunkCalls ==
    {[pc |-> "called", words |-> TextOfWords(n), chunk_tokens |-> ct, overlap |-> ov,
      i |-> 0, chunks |-> <<>>] :
        n \in 0..MaxWords, ct \in 1..MaxChunkTokens, ov \in 0..MaxOverlap}

(* words = text.split(); if not words: return []; chunks = []; i = 0 *)
ChunkTextEnter ==
    /\ loop.pc = "called"
    /\ loop' = [loop EXCEPT !.pc = IF loop.words = <<>> THEN "returned" ELSE "loop"]
    /\ UNCHANGED <<indexVars, HAS_SEMANTIC, tieRank, cacheVars, normVars, concVars,
                   loaderVars, caller>>

(* One turn of the while loop. *)
ChunkTextStep ==
    /\ loop.pc = "loop"
    /\ loop.i < Len(loop.words)
    /\ loop' = [loop EXCEPT
                    !.chunks = Append(@, Slice(loop.words, loop.i,
                                               loop.i + loop.chunk_tokens)),
                    !.i = @ + Stride(loop.chunk_tokens, loop.overlap)]
    /\ UNCHANGED <<indexVars, HAS_SEMANTIC, tieRank, cacheVars, normVars, concVars,
                   loaderVars, caller>>

(* The loop test fails: return chunks. *)
ChunkTextReturn ==
    /\ loop.pc = "loop"
    /\ ~(loop.i < Len(loop.words))
    /\ loop' = [loop EXCEPT !.pc = "returned"]
    /\ UNCHANGED <<indexVars, HAS_SEMANTIC, tieRank, cacheVars, normVars, concVars,
                   loaderVars, caller>>

InitChunk ==
    /\ index = EmptyIndex
    /\ HAS_SEMANTIC = FALSE
    /\ tieRank = "index order"
    /\ lastFit = NoFit
    /\ last = NoOutcome
    /\ CacheIdle
    /\ NormIdle
    /\ NoHandlers
    /\ LoaderIdle
    /\ loop \in ChunkCalls
    /\ caller = NoCaller

NextChunk == ChunkTextEnter \/ ChunkTextStep \/ ChunkTextReturn

(* A call that has begun runs on: nothing in chunk_text waits. *)
SpecChunk == InitChunk /\ [][NextChunk]_vars /\ WF_vars(NextChunk)

(* Where chunk j (counted from 0) is to start, and the words it is to hold. *)
ExpectedStart(j) ==
    j * (IF loop.chunk_tokens - loop.overlap >= 1
         THEN loop.chunk_tokens - loop.overlap ELSE 1)

ExpectedChunk(j) ==
    [k \in 1..Min(loop.chunk_tokens, Len(loop.words) - ExpectedStart(j)) |->
        loop.words[ExpectedStart(j) + k]]

ChunksSoFarRight ==
    /\ Len(loop.chunks) <= Len(loop.words)
    /\ \A j \in 1..Len(loop.chunks) :
          /\ ExpectedStart(j - 1) < Len(loop.words)
          /\ loop.chunks[j] = ExpectedChunk(j - 1)
          /\ loop.chunks[j] # <<>>
          /\ Len(loop.chunks[j]) <= loop.chunk_tokens

ChunksCover ==
    /\ \A k \in 1..Len(loop.words) :
          \E j \in 1..Len(loop.chunks) : \E m \in 1..Len(loop.chunks[j]) :
              loop.chunks[j][m] = loop.words[k]
    /\ loop.words = <<>> => loop.chunks = <<>>
    /\ loop.chunks = ChunkText(loop.words, loop.chunk_tokens, loop.overlap)

(* C30: for chunk_tokens >= 1 and overlap >= 0, overlap >= chunk_tokens    *)
(* included, chunk_text returns; chunk j starts at word                    *)
(* j * max(1, chunk_tokens - overlap), holds at most chunk_tokens          *)
(* consecutive words and at least one, every word of the text is in some   *)
(* chunk, and a text of no words gives no chunk.                           *)
C30_ChunkTextTerminatesAndCovers ==
    /\ <>(loop.pc = "returned")
    /\ [](ChunksSoFarRight /\ (loop.pc = "returned" => ChunksCover))

(* A call with overlap >= chunk_tokens returned several chunks. *)
C30_Witness ==
    /\ loop.pc = "returned"
    /\ loop.overlap >= loop.chunk_tokens /\ loop.chunk_tokens >= 2
    /\ Len(loop.chunks) = Len(loop.words) /\ Len(loop.words) >= 3

----------------------------------------------------------------------------
(* SpecOwner: a caller fits an index on a list and goes on using the list *)

(* self.chunks = chunks binds the attribute to the list object that was    *)
(* passed in: fit makes no copy of it.                                     *)
FitKeepsReference == TRUE

(* What the caller can do to its list: append a chunk, remove one, or      *)
(* reverse the order.                                                      *)
ListAfterChange(list) ==
    ({Append(list, [chunk_id |-> Len(list), text |-> t]) :
            t \in IF Len(list) < MaxChunks THEN Texts ELSE {}}
        \cup {WithoutDocument(list, i) : i \in 1..Len(list)}
        \cup {Reverse(list)}) \ {list}

(* idx.fit(chunks) on a list the caller has made. *)
OwnerFit ==
    \E texts \in SeqsUpTo(Texts, MaxChunks), lexOk \in BOOLEAN,
       sem \in SemOutcomes(index) :
        /\ lexOk => LexCanSucceed(MkChunks(texts))
        /\ ~HAS_SEMANTIC => sem = "ok"
        /\ index' = FitIndex(index, MkChunks(texts), HAS_SEMANTIC, lexOk, sem)
        /\ caller' = [op |-> "fit", bound |-> FitKeepsReference, list |-> MkChunks(texts)]
        /\ lastFit' = [called |-> TRUE, lexOk |-> lexOk,
                       semOk |-> HAS_SEMANTIC /\ sem = "ok"]
        /\ UNCHANGED <<last, HAS_SEMANTIC, tieRank, cacheVars, normVars, concVars,
                       loaderVars, loop>>

(* The caller changes its list in place; an attribute bound to the same    *)
(* object shows the change.                                                *)
OwnerChangeList ==
    \E list \in ListAfterChange(caller.list) :
        /\ caller.op # "none"
        /\ caller' = [caller EXCEPT !.op = "change", !.list = list]
        /\ index' = [index EXCEPT !.chunks = IF caller.bound THEN list ELSE @]
        /\ UNCHANGED <<lastFit, last, HAS_SEMANTIC, tieRank, cacheVars, normVars,
                       concVars, loaderVars, loop>>

InitOwner ==
    /\ index = EmptyIndex
    /\ HAS_SEMANTIC \in BOOLEAN
    /\ tieRank \in TieOrders
    /\ lastFit = NoFit
    /\ last = NoOutcome
    /\ CacheIdle
    /\ NormIdle
    /\ NoHandlers
    /\ LoaderIdle
    /\ loop = NoLoop
    /\ caller = NoCaller

NextOwner == OwnerFit \/ OwnerChangeList

SpecOwner == InitOwner /\ [][NextOwner]_vars

(* C26: once fit(chunks) has returned, appending to, removing from or      *)
(* reordering the list that was passed changes neither the chunks of the   *)
(* index nor the result of any query.                                      *)
C26_IndexOwnsChunks ==
    [][(caller'.op = "change" /\ caller'.list # caller.list) =>
          /\ index'.chunks = index.chunks
          /\ \A q \in Queries, k \in 0..MaxTopK :
                 QueryIndex(index', q, k, tieRank) = QueryIndex(index, q, k, tieRank)]_vars

----------------------------------------------------------------------------
(* SpecLoader: build_chunks and get_or_create_index over the files of      *)
(* data/docs                                                               *)

MaxFiles == 2

(* The files met: texts of one chunk and of two, a file that cannot be     *)
(* read, one of white space alone, and one load_corpus does not know.      *)
FileShapes ==
    {File("ipc", ".txt", TRUE, CHUNK_TOKENS + 1),
     File("note", ".txt", TRUE, 1),
     File("locked", ".txt", FALSE, 0),
     File("blank", ".txt", TRUE, 0),
     File("act", ".pdf", TRUE, CHUNK_TOKENS - OVERLAP + 1),
     File("readme", ".md", TRUE, 1)}

DocStates ==
    {[dir |-> "present", files |-> fs] :
        fs \in {s \in SeqsUpTo(FileShapes, MaxFiles) :
                    \A i, j \in 1..Len(s) : i # j => s[i] # s[j]}}
        \cup {NoDocs, [dir |-> "blocked", files |-> <<>>]}

(* A call of build_chunks. *)
BuildChunksCall ==
    /\ built' = <<BuildResult(docs), built[1]>>
    /\ docs' = IF LoadCorpusRaises(docs) THEN docs ELSE AfterMakedirs(docs)
    /\ ev' = Event("build_chunks", BuildResult(docs).outcome, "none", FALSE, "none")
    /\ UNCHANGED <<corpus, slot, blob, nextId, ret, hist, indexVars, HAS_SEMANTIC,
                   tieRank, normVars, concVars, loop, caller>>

(* Step 2 of get_or_create_index, as GetBuilt, over the files. *)
LoaderGetBuilt ==
    /\ slot.isNone
    /\ nextId < MaxInstances
    /\ ~(BlobExists(blob) /\ Deserializable(blob))
    /\ \E lexOk \in BOOLEAN, sem \in SemOutcomes(EmptyIndex), w \in WriteOutcomes :
        LET r == BuildResult(docs)
            fits == r.outcome = "returned" /\ r.chunks # <<>>
            idx == IF fits THEN FitIndex(EmptyIndex, r.chunks, HAS_SEMANTIC, lexOk, sem)
                   ELSE EmptyIndex
        IN  /\ ~HAS_SEMANTIC => sem = "ok"
            /\ ~fits => lexOk /\ sem = "ok" /\ w = "ok"
            /\ slot' = CacheResourceStore([isNone |-> FALSE, id |-> nextId, idx |-> idx])
            /\ ret' = [isNone |-> FALSE, id |-> nextId, idx |-> idx]
            /\ blob' = IF fits THEN WriteBlob(blob, idx, w) ELSE blob
            /\ ev' = Event("get",
                           IF r.outcome = "raised" THEN "build failed" ELSE "built",
                           IF fits THEN w ELSE "none",
                           ev.op = "corpus", blob.state)
    /\ docs' = IF LoadCorpusRaises(docs) THEN docs ELSE AfterMakedirs(docs)
    /\ nextId' = nextId + 1
    /\ hist' = [hist EXCEPT !.builds = @ + 1]
    /\ UNCHANGED <<corpus, built, indexVars, HAS_SEMANTIC, tieRank, normVars, concVars,
                   loop, caller>>

(* The documents are deleted from data/docs. *)
RemoveDocuments ==
    /\ docs.files # <<>>
    /\ docs' = [docs EXCEPT !.files = <<>>]
    /\ ev' = Event("corpus", "none", "none", TRUE, "none")
    /\ UNCHANGED <<corpus, built, slot, blob, nextId, ret, hist, indexVars,
                   HAS_SEMANTIC, tieRank, normVars, concVars, loop, caller>>

InitLoader ==
    /\ index = EmptyIndex
    /\ HAS_SEMANTIC = FALSE
    /\ tieRank = "index order"
    /\ lastFit = NoFit
    /\ last = NoOutcome
    /\ CacheIdle
    /\ NormIdle
    /\ NoHandlers
    /\ docs \in DocStates
    /\ built = <<NoBuild, NoBuild>>
    /\ loop = NoLoop
    /\ caller = NoCaller

NextLoader ==
    \/ BuildChunksCall \/ GetCached \/ GetLoaded \/ LoaderGetBuilt \/ RemoveDocuments
    \/ Restart

SpecLoader == InitLoader /\ [][NextLoader]_vars

(* The most recent build_chunks call, and the files it could take. *)
Latest == built[1]
Loadable(f) == KnownExt(f) /\ f.readable /\ f.words # <<>>
LoadableFiles(d) == SelectSeq(d.files, Loadable)

ChunksFrom(chunks, path) == SelectSeq(chunks, LAMBDA c : c.source = path)

(* build_chunks returned, and every file it could take gave its chunks,    *)
(* whatever files beside it could not be read.                             *)
UnreadableSkipped ==
    (Latest.outcome # "none" /\ Latest.seen.dir # "blocked") =>
        /\ Latest.outcome = "returned"
        /\ \A i \in 1..Len(Latest.seen.files) :
              LET f == Latest.seen.files[i]
                  got == ChunksFrom(Latest.chunks, f.path)
              IN  IF Loadable(f)
                  THEN [k \in 1..Len(got) |-> got[k].text]
                          = ChunkText(f.words, CHUNK_TOKENS, OVERLAP)
                  ELSE got = <<>>

ZeroChunks(d) == LoadCorpusRaises(d) \/ BuildChunksOfDocs(d) = <<>>

(* The index holds no chunk, and every query on it returns the empty       *)
(* sequence.                                                               *)
AlwaysEmpty(idx) ==
    /\ idx.chunks = <<>>
    /\ \A q \in Queries, k \in 0..MaxTopK :
           QueryIndex(idx, q, k, tieRank)
               = [outcome |-> "returned", q |-> q, top_k |-> k, results |-> <<>>]

(* C22 as stated: a file that cannot be read is skipped and the other      *)
(* files give their chunks; and whenever the corpus yields no chunk, or    *)
(* cannot be loaded at all, get_or_create_index returns an index on which  *)
(* every query returns the empty sequence.                                 *)
C22_EmptyCorpusEmptyIndex ==
    /\ UnreadableSkipped
    /\ (ev.op = "get" /\ ZeroChunks(docs)) => (~ret.isNone /\ AlwaysEmpty(ret.idx))

(* C22 amended: the same, for the calls of get_or_create_index that build  *)
(* the index: no index is memoized and no blob loads.                      *)
C22_UnreadableSkippedEmptyBuild ==
    /\ UnreadableSkipped
    /\ (JustBuilt /\ ZeroChunks(docs)) => (~ret.isNone /\ slot = ret /\ AlwaysEmpty(ret.idx))

(* build_chunks passed over an unreadable file and cut the file after it,  *)
(* and later get_or_create_index built an index over no chunk.             *)
C22_Witness ==
    /\ Latest.outcome = "returned" /\ Len(Latest.chunks) >= 2
    /\ Len(Latest.seen.files) = 2 /\ ~Latest.seen.files[1].readable
    /\ JustBuilt /\ ZeroChunks(docs) /\ AlwaysEmpty(ret.idx)

(* C23: a build_chunks call changes nothing on the file system, and two    *)
(* calls that meet the same corpus return the same chunk sequence.         *)
C23_BuildChunksPureRead ==
    [][ev'.op = "build_chunks" =>
          /\ docs' = docs
          /\ (built'[2].outcome # "none" /\ built'[2].seen = built'[1].seen) =>
                (built'[1].outcome = built'[2].outcome
                    /\ built'[1].chunks = built'[2].chunks)]_vars

(* The document a chunk was cut from: its place among the files taken.    *)
(* Word k of a file being held as k, the first word of a chunk tells where *)
(* in the document the chunk starts.                                       *)
DocOf(c) == LoadableFiles(Latest.seen)[c.doc_id + 1]

(* C27: in what build_chunks returns, chunk i (from 0) has chunk_id i, so  *)
(* the ids are distinct; every text is non-empty; every chunk has the      *)
(* doc_id and source of the document its text was cut from; the chunks of  *)
(* one document are next to each other and in the order of the text.       *)
C27_ChunksWellFormed ==
    Latest.outcome = "returned" =>
        LET chunks == Latest.chunks
        IN  /\ \A i \in 1..Len(chunks) :
                  /\ chunks[i].chunk_id = i - 1
                  /\ chunks[i].text # <<>>
                  /\ chunks[i].doc_id \in 0..(Len(LoadableFiles(Latest.seen)) - 1)
                  /\ chunks[i].source = DocOf(chunks[i]).path
                  /\ LET a == chunks[i].text[1] - 1
                     IN  chunks[i].text
                            = Slice(DocOf(chunks[i]).words, a, a + Len(chunks[i].text))
            /\ \A i, j \in 1..Len(chunks) : i # j => chunks[i].chunk_id # chunks[j].chunk_id
            /\ \A i, k \in 1..Len(chunks) :
                  (i < k /\ chunks[i].doc_id = chunks[k].doc_id) =>
                      /\ \A j \in i..k : chunks[j].doc_id = chunks[i].doc_id
                      /\ chunks[i].text[1] < chunks[k].text[1]

(* Two documents were cut, one of them into two chunks. *)
C27_Witness ==
    /\ Latest.outcome = "returned" /\ Len(Latest.chunks) >= 3
    /\ Latest.chunks[1].doc_id = Latest.chunks[2].doc_id
    /\ Latest.chunks[3].doc_id # Latest.chunks[1].doc_id

====
